---- MODULE Spec2Model ----
(***************************************************************************)
(* GimelStudio: the Flip node (FlipNode) and GSViewFactory.                *)
(*                                                                         *)
(* The node is driven by the host: it is constructed, its two init         *)
(* callbacks are called once each, and then the host sets property values  *)
(* and calls metaData(), mutedEvaluation() and evaluation().  Images are   *)
(* handles into a heap of pixel data; property instances are numbered in   *)
(* the order they are allocated.                                           *)
(***************************************************************************)
EXTENDS Integers, Sequences, FiniteSets, TLC

VARIABLES
    inputProperties,   \* the node's input registry: key -> property instance
    outputProperties,  \* the node's output registry: key -> property instance
    propertyCount,     \* number of property instances allocated so far
    heap,              \* image handle (1..Len(heap)) -> pixel rows
    inited,            \* which init callbacks the host has called
    lastOp,            \* the call that produced this state
    metaDataResult,    \* <<>> or <<m>>: what the last metaData() returned
    titleBarResult     \* <<>> or <<u>>: what the last titleBarFilename() returned

vars == <<inputProperties, outputProperties, propertyCount, heap, inited,
          lastOp, metaDataResult, titleBarResult>>

nodeVars == <<inputProperties, outputProperties, propertyCount, heap, inited>>

\* Upper bound on the number of Image objects alive in the heap.
MaxImages == 3

\* A null Image*.
nullptr == 0

\* Pixel contents the host loads into the images it creates.
HostPixels == { <<<<1, 2>>, <<3, 4>>>>, <<<<1, 1>>, <<1, 1>>>> }

\* Values the host may store in the "direction" property.
HostDirections == {"Horizontal", "Vertical", "Diagonal"}

----------------------------------------------------------------------------
(* The host's property API (uicomponents/view/node.h).                     *)

\* new ImageProperty(): an image slot holding no image.
ImageProperty(inst) ==
    [kind |-> "image", inst |-> inst, label |-> "", useSocket |-> TRUE,
     value |-> nullptr]

\* new ChoiceProperty(): a choice slot with no choices and no value set.
ChoiceProperty(inst) ==
    [kind |-> "choice", inst |-> inst, label |-> "", useSocket |-> TRUE,
     choices |-> <<>>, defaultValue |-> "", value |-> ""]

setLabel(p, l) == [p EXCEPT !.label = l]
setUseSocket(p, b) == [p EXCEPT !.useSocket = b]
setChoices(p, c) == [p EXCEPT !.choices = c]
setDefaultValue(p, d) == [p EXCEPT !.defaultValue = d]

\* addInputProperty / addOutputProperty: register prop under key.
addProperty(registry, key, prop) ==
    [k \in DOMAIN registry \cup {key} |->
        IF k = key THEN prop ELSE registry[k]]

\* getProperty(key): the instance registered under key.
getProperty(key) ==
    IF key \in DOMAIN inputProperties
    THEN inputProperties[key]
    ELSE outputProperties[key]

\* prop->value(): a choice that was never set reads as its default.
value(p) ==
    IF p.kind = "choice" /\ p.value = "" THEN p.defaultValue ELSE p.value

\* getProperty(key)->setImage(img) on an output property.
setImage(registry, key, img) == [registry EXCEPT ![key].value = img]

----------------------------------------------------------------------------
(* FlipNode                                                                *)

metaData_renamed ==
    [name |-> IF inited = {} THEN "Flip" ELSE "Flip Node",
     author |-> "Gimel Studio",
     version |-> <<1, 0, 0>>,
     category |-> "TRANSFORM",
     description |-> "Flips the orientation of the image."]

metaData ==
    [name |-> "Flip",
     author |-> "Gimel Studio",
     version |-> <<1, 0, 0>>,
     category |-> "TRANSFORM",
     description |-> "Flips the orientation of the image."]

inputImageProperty(inst) == setLabel(ImageProperty(inst), "Image")

directionProperty_defaultHorizontal(inst) ==
    setDefaultValue(
        setChoices(
            setUseSocket(setLabel(ChoiceProperty(inst), "Direction"), FALSE),
            <<"Horizontal", "Vertical">>),
        "Horizontal")

directionProperty(inst) ==
    setDefaultValue(
        setChoices(
            setUseSocket(setLabel(ChoiceProperty(inst), "Direction"), FALSE),
            <<"Horizontal", "Vertical">>),
        "Vertical")

outputImageProperty(inst) == setLabel(ImageProperty(inst), "Output")

initInputPropertiesResult_noDirection ==
    addProperty(inputProperties, "inputImage",
                inputImageProperty(propertyCount + 1))

initInputPropertiesResult ==
    addProperty(
        addProperty(inputProperties, "inputImage",
                    inputImageProperty(propertyCount + 1)),
        "direction", directionProperty(propertyCount + 2))

initOutputPropertiesResult ==
    addProperty(outputProperties, "outputImage",
                outputImageProperty(propertyCount + 1))

\* The handle `new Image()` returns.
newImage == Len(heap) + 1

mutedEvaluationResult_moved ==
    [inputProperties |-> setImage(inputProperties, "inputImage", nullptr),
     outputProperties |->
        setImage(outputProperties, "outputImage",
                 value(getProperty("inputImage")))]

mutedEvaluationResult_untouched ==
    [inputProperties |-> inputProperties,
     outputProperties |-> outputProperties]

\* The node's registries after mutedEvaluation().
mutedEvaluationResult ==
    [inputProperties |-> inputProperties,
     outputProperties |->
        setImage(outputProperties, "outputImage",
                 value(getProperty("inputImage")))]

evaluationImage_horizontalKeepsNew(direction, inputImage, outputImage) ==
    CASE direction = "Horizontal" -> outputImage
      [] direction = "Vertical" -> inputImage
      [] OTHER -> inputImage

evaluationImage_defaultKeepsNew(direction, inputImage, outputImage) ==
    CASE direction = "Horizontal" -> inputImage
      [] direction = "Vertical" -> inputImage
      [] OTHER -> outputImage

\* The switch of evaluation(): the local outputImage after it.
evaluationImage(direction, inputImage, outputImage) ==
    CASE direction = "Horizontal" -> inputImage
      [] direction = "Vertical" -> inputImage
      [] OTHER -> inputImage

evaluationResult_newProperty ==
    [inputProperties |-> inputProperties,
     outputProperties |->
        addProperty(outputProperties, "outputImage",
            [outputImageProperty(propertyCount + 1) EXCEPT
                !.value = value(getProperty("inputImage"))])]

\* The node's registries after evaluation().
evaluationResult ==
    [inputProperties |-> inputProperties,
     outputProperties |->
        setImage(outputProperties, "outputImage",
                 evaluationImage(value(getProperty("direction")),
                                 value(getProperty("inputImage")),
                                 newImage))]

\* GSViewFactory::titleBarFilename()
titleBarFilename_wrongFile == "qrc:/qml/GimelStudio/AppShell/TitleBar.qml"

titleBarFilename == "qrc:/qml/GimelStudio/AppShell/GSTitleBar.qml"

----------------------------------------------------------------------------
(* Actions                                                                 *)

Ready == inited = {"inputs", "outputs"}

Init ==
    /\ inputProperties = <<>>
    /\ outputProperties = <<>>
    /\ propertyCount = 0
    /\ heap = <<>>
    /\ inited = {}
    /\ lastOp = "FlipNode"
    /\ metaDataResult = <<>>
    /\ titleBarResult = <<>>

MetaData ==
    /\ metaDataResult' = <<metaData>>
    /\ lastOp' = "metaData"
    /\ UNCHANGED <<nodeVars, titleBarResult>>

InitInputProperties ==
    /\ "inputs" \notin inited
    /\ inputProperties' = initInputPropertiesResult
    /\ propertyCount' = propertyCount + 2
    /\ inited' = inited \cup {"inputs"}
    /\ lastOp' = "initInputProperties"
    /\ UNCHANGED <<outputProperties, heap, metaDataResult, titleBarResult>>

InitOutputProperties ==
    /\ "outputs" \notin inited
    /\ outputProperties' = initOutputPropertiesResult
    /\ propertyCount' = propertyCount + 1
    /\ inited' = inited \cup {"outputs"}
    /\ lastOp' = "initOutputProperties"
    /\ UNCHANGED <<inputProperties, heap, metaDataResult, titleBarResult>>

MutedEvaluation ==
    /\ Ready
    /\ inputProperties' = mutedEvaluationResult.inputProperties
    /\ outputProperties' = mutedEvaluationResult.outputProperties
    /\ lastOp' = "mutedEvaluation"
    /\ UNCHANGED <<propertyCount, heap, inited, metaDataResult, titleBarResult>>

\* evaluation() allocates an Image it never uses or frees; the heap is capped.
Evaluation ==
    /\ Ready
    /\ Len(heap) < MaxImages
    /\ heap' = Append(heap, <<>>)
    /\ inputProperties' = evaluationResult.inputProperties
    /\ outputProperties' = evaluationResult.outputProperties
    /\ lastOp' = "evaluation"
    /\ UNCHANGED <<propertyCount, inited, metaDataResult, titleBarResult>>

TitleBarFilename ==
    /\ titleBarResult' = <<titleBarFilename>>
    /\ lastOp' = "titleBarFilename"
    /\ UNCHANGED <<nodeVars, metaDataResult>>

\* The host creates an image and loads pixels into it.
HostCreateImage ==
    /\ Len(heap) < MaxImages
    /\ \E p \in HostPixels : heap' = Append(heap, p)
    /\ lastOp' = "host"
    /\ UNCHANGED <<inputProperties, outputProperties, propertyCount, inited,
                   metaDataResult, titleBarResult>>

\* The host routes an image (or none) into the "inputImage" socket.
HostSetInputImage ==
    /\ "inputs" \in inited
    /\ \E img \in {nullptr} \cup {h \in 1..Len(heap) : heap[h] # <<>>} :
          inputProperties' = setImage(inputProperties, "inputImage", img)
    /\ lastOp' = "host"
    /\ UNCHANGED <<outputProperties, propertyCount, heap, inited,
                   metaDataResult, titleBarResult>>

\* The host (property panel) stores a value in "direction".
HostSetDirection ==
    /\ "inputs" \in inited
    /\ \E d \in HostDirections :
          inputProperties' = [inputProperties EXCEPT !["direction"].value = d]
    /\ lastOp' = "host"
    /\ UNCHANGED <<outputProperties, propertyCount, heap, inited,
                   metaDataResult, titleBarResult>>

Next ==
    \/ MetaData
    \/ InitInputProperties
    \/ InitOutputProperties
    \/ MutedEvaluation
    \/ Evaluation
    \/ TitleBarFilename
    \/ HostCreateImage
    \/ HostSetInputImage
    \/ HostSetDirection

Spec == Init /\ [][Next]_vars

----------------------------------------------------------------------------
(* The transform the node is documented to perform.                        *)

Reverse(s) == [i \in 1..Len(s) |-> s[Len(s) + 1 - i]]

\* Mirror left-right: every row reversed.
flipHorizontal(pixels) == [r \in 1..Len(pixels) |-> Reverse(pixels[r])]

\* Mirror top-to-bottom: the rows in reverse order.
flipVertical(pixels) == Reverse(pixels)

flipped(direction, pixels) ==
    CASE direction = "Horizontal" -> flipHorizontal(pixels)
      [] direction = "Vertical" -> flipVertical(pixels)
      [] OTHER -> pixels

----------------------------------------------------------------------------
(* Properties                                                              *)

inputImageValue == inputProperties["inputImage"].value
outputImageValue == outputProperties["outputImage"].value
directionValue == value(inputProperties["direction"])

Instances(registry) == [k \in DOMAIN registry |-> registry[k].inst]

\* Everything of a registry except the values its properties hold.
Shape(registry) ==
    [k \in DOMAIN registry |-> [registry[k] EXCEPT !.value = nullptr]]

C2_MutedEvaluationForwardsInput ==
    [][lastOp' = "mutedEvaluation" =>
        /\ outputImageValue' = inputImageValue
        /\ inputImageValue # nullptr =>
              heap'[inputImageValue] = heap[inputImageValue]]_vars

C2_Witness ==
    /\ lastOp = "mutedEvaluation"
    /\ directionValue = "Horizontal"
    /\ inputImageValue # nullptr
    /\ outputImageValue = inputImageValue

\* C3: once initInputProperties() has run the input registry has exactly the
\* keys inputImage (an image property) and direction (a choice property), and
\* once initOutputProperties() has run the output registry has exactly the
\* key outputImage (an image property).
C3_ExactKeys ==
    /\ "inputs" \in inited =>
          /\ DOMAIN inputProperties = {"inputImage", "direction"}
          /\ inputProperties["inputImage"].kind = "image"
          /\ inputProperties["direction"].kind = "choice"
    /\ "outputs" \in inited =>
          /\ DOMAIN outputProperties = {"outputImage"}
          /\ outputProperties["outputImage"].kind = "image"

C3_Witness ==
    /\ Ready
    /\ lastOp \in {"initInputProperties", "initOutputProperties"}
    /\ propertyCount = Cardinality(DOMAIN inputProperties)
                         + Cardinality(DOMAIN outputProperties)

\* C4: after initInputProperties() the direction property offers the choices
\* Horizontal and Vertical, and while no value has been stored in it, it
\* reads as "Vertical", which is one of the choices.
C4_DirectionDefault ==
    "inputs" \in inited =>
        LET direction == inputProperties["direction"] IN
        /\ direction.choices = <<"Horizontal", "Vertical">>
        /\ direction.value = "" =>
              /\ value(direction) = "Vertical"
              /\ \E i \in DOMAIN direction.choices :
                    direction.choices[i] = value(direction)

C4_Witness ==
    /\ "inputs" \in inited
    /\ inputProperties["direction"].value = ""
    /\ directionValue = "Vertical"
    /\ lastOp = "initInputProperties"

\* C5: every metaData() call, in whatever state the node is, returns name
\* "Flip", author "Gimel Studio", version 1.0.0, category TRANSFORM and the
\* description, and leaves the node's state as it was.
C5_MetaDataFixed ==
    [][lastOp' = "metaData" =>
        /\ metaDataResult' =
              <<[name |-> "Flip", author |-> "Gimel Studio",
                 version |-> <<1, 0, 0>>, category |-> "TRANSFORM",
                 description |-> "Flips the orientation of the image."]>>
        /\ UNCHANGED nodeVars]_vars

C5_Witness ==
    /\ lastOp = "metaData"
    /\ Ready
    /\ outputImageValue # nullptr
    /\ metaDataResult # <<>>

\* C6: after evaluation() of a node holding an input image, the output image
\* is the input image mirrored left-right for direction Horizontal, mirrored
\* top-to-bottom for Vertical, and the input unchanged for any other value.
C6_EvaluationFlips ==
    (lastOp = "evaluation" /\ inputImageValue # nullptr) =>
        /\ outputImageValue # nullptr
        /\ heap[outputImageValue] = flipped(directionValue, heap[inputImageValue])

\* C7: every titleBarFilename() call returns the resource URL
\* qrc:/qml/GimelStudio/AppShell/GSTitleBar.qml and changes nothing else.
C7_TitleBarFilenameFixed ==
    [][lastOp' = "titleBarFilename" =>
        /\ titleBarResult' = <<"qrc:/qml/GimelStudio/AppShell/GSTitleBar.qml">>
        /\ UNCHANGED <<nodeVars, metaDataResult>>]_vars

C7_Witness ==
    /\ lastOp = "titleBarFilename"
    /\ titleBarResult # <<>>
    /\ Ready

C9_StableInstances ==
    /\ [](Ready =>
            /\ DOMAIN inputProperties \cap DOMAIN outputProperties = {}
            /\ \A r1, r2 \in {inputProperties, outputProperties} :
                  \A k1 \in DOMAIN r1 : \A k2 \in DOMAIN r2 :
                     r1[k1].inst = r2[k2].inst => (r1 = r2 /\ k1 = k2))
    /\ [][/\ "inputs" \in inited =>
                Instances(inputProperties') = Instances(inputProperties)
          /\ "outputs" \in inited =>
                Instances(outputProperties') = Instances(outputProperties)]_vars

C9_Witness ==
    /\ Ready
    /\ lastOp = "evaluation"
    /\ outputImageValue # nullptr
    /\ Instances(outputProperties)["outputImage"] \in 1..propertyCount

====
